---- MODULE Spec2Model ----
(***************************************************************************)
(* Ride request / driver acceptance / cancellation workflow of the         *)
(* ride-booking API: the rides and drivers tables, the service functions   *)
(* that change them, and the interleaving of concurrent requests at their  *)
(* database calls (every await of a data-access call is a scheduling       *)
(* point of the event loop).                                               *)
(*                                                                         *)
(* Database: PostgreSQL at its default isolation level (READ COMMITTED,    *)
(* src/config/database.ts sets none).  A statement issued without a        *)
(* transaction option runs on its own connection and commits at once; a    *)
(* statement issued with { transaction: t } stays invisible to every other *)
(* connection until t commits, and locks the rows it wrote until t ends.   *)
(*                                                                         *)
(* Beside the ride workflow: registration and login of riders and drivers  *)
(* (SpecAuth) and the middleware chain of the HTTP routes (SpecHttp).      *)
(***************************************************************************)
EXTENDS Integers, FiniteSets, Sequences, TLC

\* ---------------------------------------------------------------- bounds
MaxDrivers == 2
MaxRides == 1
MaxUsers == 2
MaxProcs == 2
\* rides of the database in which requests run one at a time (SpecTwoRides)
MaxRidesSeq == 2

DriverIds == 1..MaxDrivers
UserIds == 1..MaxUsers
Procs == 1..MaxProcs

\* driver_id of a ride without a driver
NULL == 0

\* ------------------------------------------------------------ data model
\* rows of the drivers table carry a status; "unborn" (id not yet issued)
\* and "deleted" (row destroyed, id never reused) stand for "no row".
DriverStatus == {"offline", "online", "busy"}
NoDriverRow == {"unborn", "deleted"}

RideStatus == {"requested", "in_progress", "completed", "canceled"}
TerminalStatus == {"completed", "canceled"}

\* findRideById / findDriverById returning null
NoRide == [user_id |-> 0, driver_id |-> NULL, status |-> "none", fare |-> 0]

\* calculateFare: baseFare 5.0 and perKmRate 2.0 per km of a distance of
\* Math.random() * 10 + 1 km, rounded by toFixed(2).  Math.random() is drawn
\* from RandomSamples (in 1/10000); money is counted in 1/10000 until toFixed
\* rounds it to cents.
RandomSamples == {0, 4567, 9999}
baseFare == 50000
perKmRate == 2
estimatedDistance(random) == random * 10 + 10000
toFixed2(x) == (x + 50) \div 100
calculateFare(random) == toFixed2(baseFare + perKmRate * estimatedDistance(random))

VARIABLES
    drivers,      \* committed drivers table: id -> status (or no row)
    rides,        \* committed rides table: id -> [user_id, driver_id, status]
    req,          \* requests in flight: one record per event-loop slot
    last,         \* the response the latest step produced, if it ended a request
    acceptedBy,   \* history: per ride, the drivers whose acceptRide committed, in order
    accounts,     \* committed users and drivers tables, the columns register and login use
    authReq,      \* registrations in flight: one record per event-loop slot
    authLast,     \* the response the latest step produced, if it ended a register or login call
    http          \* the HTTP request on its way through the middleware chain

vars == <<drivers, rides, req, last, acceptedBy, accounts, authReq, authLast, http>>

\* the variables of the ride workflow, of the account functions, of the HTTP layer
rideVars == <<drivers, rides, req, last, acceptedBy>>
authVars == <<accounts, authReq, authLast>>
httpVars == <<http>>

\* the ride ids of the database at hand
RideIds == DOMAIN rides

\* a free slot
Idle == [op |-> "none", pc |-> "idle", who |-> 0, ride |-> 0, rd_driver |-> NULL, ret |-> NoRide]

\* the latest step ended no request
NoResponse == [op |-> "none", who |-> 0, ride |-> 0, rd_driver |-> NULL,
               result |-> "none", ret |-> NoRide]

\* ------------------------------------------------------- data access layer
findDriverById(ds, driverId) ==
    IF ds[driverId] \in DriverStatus THEN ds[driverId] ELSE "none"

findRideById(rs, rideId) == rs[rideId]

\* variant: the fare is left out of the created row
createRideRequest_noFare(rs, rideId, userId, fare) ==
    [rs EXCEPT ![rideId] = [user_id |-> userId, driver_id |-> NULL, status |-> "requested",
                            fare |-> 0]]

\* Ride.create with driver_id null and status requested
createRideRequest(rs, rideId, userId, fare) ==
    [rs EXCEPT ![rideId] = [user_id |-> userId, driver_id |-> NULL, status |-> "requested",
                            fare |-> fare]]

\* Driver.create with status offline
createDriver(ds, driverId) == [ds EXCEPT ![driverId] = "offline"]

\* Ride.update(payload, where ride_id): rows matched by the where clause
rideAffectedCount(rs, rideId) == IF rs[rideId].status = "none" THEN 0 ELSE 1

\* variant: the payload drops status when a driver is assigned
updateRideStatus_keepsStatus(rs, rideId, status, setDriver, driverId) ==
    IF rs[rideId].status = "none" THEN rs
    ELSE [rs EXCEPT ![rideId] =
            [@ EXCEPT !.status = IF setDriver THEN @ ELSE status,
                      !.driver_id = IF setDriver THEN driverId ELSE @]]

\* the update payload: status always, driver_id only when the argument is given
\* (setDriver = FALSE is the call with driverId undefined)
updateRideStatus(rs, rideId, status, setDriver, driverId) ==
    IF rs[rideId].status = "none" THEN rs
    ELSE [rs EXCEPT ![rideId] =
            [@ EXCEPT !.status = status,
                      !.driver_id = IF setDriver THEN driverId ELSE @]]

\* Driver.update({status}, where driver_id).  acceptRide passes a third
\* argument { transaction: t }; the DriverDataAccess that takes it is the one
\* modelled (the two-parameter variant of the same class cannot be called so).
driverAffectedCount(ds, driverId) == IF ds[driverId] \in DriverStatus THEN 1 ELSE 0

\* variant: the update without its where clause
updateDriverStatus_noWhere(ds, driverId, status) ==
    [d \in DOMAIN ds |-> IF ds[d] \in DriverStatus THEN status ELSE ds[d]]

updateDriverStatus(ds, driverId, status) ==
    IF ds[driverId] \in DriverStatus THEN [ds EXCEPT ![driverId] = status] ELSE ds

\* Driver.destroy(where driver_id)
deleteDriver(ds, driverId) == [ds EXCEPT ![driverId] = "deleted"]

\* variant: the foreign key without its ON DELETE rule
onDeleteSetNull_noAction(rs, driverId) == rs

\* rides.driver_id REFERENCES drivers ON DELETE SET NULL
onDeleteSetNull(rs, driverId) ==
    [r \in DOMAIN rs |->
        IF rs[r].status # "none" /\ rs[r].driver_id = driverId
        THEN [rs[r] EXCEPT !.driver_id = NULL] ELSE rs[r]]

\* ------------------------------------------------------------ service checks
\* variant: only an offline driver is turned away
AcceptDriverCheck_busyAllowed(driverStatus) ==
    IF driverStatus = "none" THEN "NOT_FOUND"
    ELSE IF driverStatus = "offline" THEN "BAD_REQUEST"
    ELSE "OK"

\* acceptRide step 1: the driver read
AcceptDriverCheck(driverStatus) ==
    IF driverStatus = "none" THEN "NOT_FOUND"
    ELSE IF driverStatus # "online" THEN "BAD_REQUEST"
    ELSE "OK"

\* variant: any existing ride passes
AcceptRideCheck_anyStatus(ride) ==
    IF ride.status = "none" THEN "NOT_FOUND"
    ELSE "OK"

\* acceptRide step 2: the ride read
AcceptRideCheck(ride) ==
    IF ride.status = "none" THEN "NOT_FOUND"
    ELSE IF ride.status # "requested" THEN "BAD_REQUEST"
    ELSE "OK"

\* variant: cancelRide without the state check
CancelCheck_noStateCheck(ride, userId) ==
    IF ride.status = "none" THEN "NOT_FOUND"
    ELSE IF ride.user_id # userId THEN "FORBIDDEN"
    ELSE "OK"

\* variant: cancelRide checking the state before the owner
CancelCheck_stateFirst(ride, userId) ==
    IF ride.status = "none" THEN "NOT_FOUND"
    ELSE IF ride.status # "requested" /\ ride.status # "in_progress" THEN "BAD_REQUEST"
    ELSE IF ride.user_id # userId THEN "FORBIDDEN"
    ELSE "OK"

\* variant: cancelRide catches the error of the driver update and goes on
cancelRideOutcome_swallowed(driverUpdateThrew) == "OK"

\* cancelRide step 3: the driver update is awaited inside the function's one
\* try block, whose catch logs and rethrows
cancelRideOutcome(driverUpdateThrew) == IF driverUpdateThrew THEN "DB_ERROR" ELSE "OK"

\* cancelRide step 1: existence, ownership, state -- in this order
CancelCheck(ride, userId) ==
    IF ride.status = "none" THEN "NOT_FOUND"
    ELSE IF ride.user_id # userId THEN "FORBIDDEN"
    ELSE IF ride.status # "requested" /\ ride.status # "in_progress" THEN "BAD_REQUEST"
    ELSE "OK"

\* ------------------------------------------------------------ transactions
\* What the transaction of acceptRide request q has written and not yet
\* committed follows from where q stands.
TxWroteRide(q) == req[q].op = "accept" /\ req[q].pc \in {"a_updateDriver", "a_commit"}
TxWroteDriver(q) == req[q].op = "accept" /\ req[q].pc = "a_commit"

\* row locks held by open transactions
RideLocked(rideId) == \E q \in Procs : TxWroteRide(q) /\ req[q].ride = rideId
\* the foreign-key check of the ride update holds the referenced driver row
\* against deletion until the transaction ends
DriverKeyLocked(driverId) == \E q \in Procs : TxWroteRide(q) /\ req[q].who = driverId
DriverLocked(driverId) == \E q \in Procs : TxWroteDriver(q) /\ req[q].who = driverId

\* COMMIT: the writes of the transaction reach the tables together
commitRides(rs, rideId, driverId) == updateRideStatus(rs, rideId, "in_progress", TRUE, driverId)

\* variant: the driver update is left out of what commits
commitDrivers_notBusy(ds, driverId) == ds

commitDrivers(ds, driverId) == updateDriverStatus(ds, driverId, "busy")

\* ROLLBACK: the writes of the transaction are dropped
\* variant: the ride update escapes the transaction and survives the rollback
rollbackRides_keepsWrite(rs, rideId, driverId) == commitRides(rs, rideId, driverId)

rollbackRides(rs, rideId, driverId) == rs
rollbackDrivers(ds, driverId) == ds

\* ---------------------------------------------------------------- accounts
\* The users table (riders and admins) and the drivers table, reduced to the
\* columns registerUser / registerDriver and loginUser / loginDriver use.
MaxAccounts == 2
MaxEmails == 2
MaxPasswords == 2

Kinds == {"user", "driver"}
AccountIds == 1..MaxAccounts
Emails == 1..MaxEmails
Passwords == 1..MaxPasswords
Roles == {"rider", "admin", "driver"}

\* an id not yet issued, and the id of a destroyed row (never issued again)
NoAccount == [email |-> 0, password |-> <<>>, role |-> "none"]
DeletedAccount == [email |-> 0, password |-> <<>>, role |-> "deleted"]

\* no token; a token is its payload and whether the server's secret signed it
NoToken == [userId |-> 0, email |-> 0, role |-> "none", signed |-> FALSE]

AuthIdle == [pc |-> "idle", kind |-> "none", email |-> 0, password |-> 0]
NoAuthResponse == [op |-> "none", kind |-> "none", email |-> 0, password |-> 0,
                   result |-> "none", id |-> 0, token |-> NoToken]
AuthResponse(op, kind, email, password, result, id, token) ==
    [op |-> op, kind |-> kind, email |-> email, password |-> password,
     result |-> result, id |-> id, token |-> token]

\* argon2.hash: what is stored is not the plaintext
argon2hash(plain) == <<"argon2", plain>>

\* variant: every password verifies
argon2verify_any(hashed, plain) == TRUE

argon2verify(hashed, plain) == hashed = argon2hash(plain)

\* User.findOne / Driver.findOne where email: the id of the row, 0 for null
findByEmail(table, email) ==
    IF \E i \in AccountIds : table[i].email = email
    THEN CHOOSE i \in AccountIds : table[i].email = email
    ELSE 0

\* createUser always stores role rider; a driver's role is no column, the
\* login gives it
roleAtCreation(kind) == IF kind = "user" THEN "rider" ELSE "driver"

\* User.create / Driver.create with the hashed password
createAccount(table, id, email, password, role) ==
    [table EXCEPT ![id] = [email |-> email, password |-> argon2hash(password), role |-> role]]

\* verifyUserCredentials / verifyDriverCredentials: the id of the row, 0 for null
verifyCredentials(table, email, plain) ==
    LET i == findByEmail(table, email)
    IN IF i = 0 THEN 0
       ELSE IF ~argon2verify(table[i].password, plain) THEN 0
       ELSE i

\* JwtAuthenticator.generateToken: jwt.sign(payload, secret)
generateToken(userId, email, role) ==
    [userId |-> userId, email |-> email, role |-> role, signed |-> TRUE]

\* JwtAuthenticator.verifyToken: the signature and the role of the payload
verifyToken(token) == token.signed /\ token.role \in Roles

\* variant: registration without the look-up of the email
RegisterCheck_noLookup(existing) == "OK"

\* registerUser / registerDriver: the email must not be in use
RegisterCheck(existing) == IF existing # 0 THEN "CONFLICT" ELSE "OK"

\* -------------------------------------------------------------- HTTP layer
\* variant: conflict answered as a bad request
errorMapping_conflictAs400 ==
    [notFound |-> 404, unauthorized |-> 401, badRequest |-> 400, forbidden |-> 403,
     conflict |-> 400, serverError |-> 500, validationError |-> 422]

errorMapping ==
    [notFound |-> 404, unauthorized |-> 401, badRequest |-> 400, forbidden |-> 403,
     conflict |-> 409, serverError |-> 500, validationError |-> 422]

\* what travels to the error handler: an Error augmented by throwError
\* (errorType, statusCode), a response body built by createErrorResponse
\* (error, code), or an Error without either
NoError == [kind |-> "none", errorType |-> "none", statusCode |-> 0, error |-> "none", code |-> 0]
throwError(type) ==
    [kind |-> "Error", errorType |-> type, statusCode |-> errorMapping[type],
     error |-> "none", code |-> 0]
createErrorResponse(type) ==
    [kind |-> "body", errorType |-> "none", statusCode |-> 0,
     error |-> type, code |-> errorMapping[type]]
plainError == [NoError EXCEPT !.kind = "Error"]

\* errorHandler: status and body.error of the response
errorHandler(err) ==
    IF err.errorType # "none" /\ err.statusCode # 0
    THEN [status |-> err.statusCode, error |-> createErrorResponse(err.errorType).error]
    ELSE [status |-> 500, error |-> createErrorResponse("serverError").error]

\* the Authorization header as the list of its space-separated parts:
\* how many there are, the first, and the token the second stands for
NoHeader == [parts |-> 0, scheme |-> "none", token |-> NoToken]
Header(parts, scheme, token) == [parts |-> parts, scheme |-> scheme, token |-> token]

\* tokens a client may send: issued by login for each role, one with a
\* signature of another secret, one issued without a role
Tokens ==
    {generateToken(1, 1, role) : role \in Roles}
    \cup {[generateToken(1, 1, "admin") EXCEPT !.signed = FALSE],
          generateToken(1, 1, "none")}

Headers ==
    {NoHeader, Header(1, "Bearer", NoToken), Header(2, "Basic", generateToken(1, 1, "rider")),
     Header(3, "Bearer", generateToken(1, 1, "rider"))}
    \cup {Header(2, "Bearer", t) : t \in Tokens}

\* a route: its middleware chain (authenticateJWT, authorizeRoles(...),
\* RequestValidator.validate(schema)), the status of its success response and
\* the typed errors its service function throws
Route(name, auth, roles, schema, success, throws) ==
    [name |-> name, auth |-> auth, roles |-> roles, schema |-> schema,
     success |-> success, throws |-> throws]

Routes ==
    {Route("POST /auth/register", FALSE, {}, TRUE, 201, {"conflict"}),
     Route("POST /auth/login", FALSE, {}, TRUE, 200, {"unauthorized", "serverError"}),
     Route("POST /driver/register", FALSE, {}, TRUE, 201, {"conflict"}),
     Route("POST /driver/login", FALSE, {}, TRUE, 200, {"unauthorized"}),
     Route("GET /driver/profile", TRUE, {}, FALSE, 200, {"notFound"}),
     Route("PUT /driver/profile", TRUE, {}, TRUE, 200, {"notFound"}),
     Route("DELETE /driver/account", TRUE, {}, FALSE, 200, {"notFound"}),
     Route("PUT /driver/status", TRUE, {}, TRUE, 200, {"notFound"}),
     Route("POST /driver/accept-ride", TRUE, {}, TRUE, 200, {"notFound", "badRequest", "serverError"}),
     Route("GET /driver/all", TRUE, {"admin"}, FALSE, 200, {}),
     Route("POST /rider/request-ride", TRUE, {}, TRUE, 201, {"serverError"}),
     Route("GET /rider/rides", TRUE, {}, FALSE, 200, {}),
     Route("POST /rider/cancel-ride", TRUE, {}, TRUE, 200,
           {"notFound", "forbidden", "badRequest", "serverError"})}

NoRoute == Route("none", FALSE, {}, FALSE, 0, {})

HttpIdle == [pc |-> "idle", route |-> NoRoute, header |-> NoHeader, bodyValid |-> FALSE,
             user |-> NoToken, err |-> NoError, status |-> 0, error |-> "none",
             reached |-> FALSE]

\* the stage after authenticateJWT, after authorizeRoles, after the validator
AfterAuthorize(route) == IF route.schema THEN "validate" ELSE "handler"
AfterAuthenticate(route) == IF route.roles # {} THEN "authorize" ELSE AfterAuthorize(route)
FirstStage(route) == IF route.auth THEN "authenticate" ELSE AfterAuthorize(route)

\* authenticateJWT: the error handed to next, NoError when the token verifies
authenticateJWT(header) ==
    IF header.parts = 0 THEN createErrorResponse("unauthorized")
    ELSE IF header.parts # 2 \/ header.scheme # "Bearer" THEN createErrorResponse("unauthorized")
    ELSE IF ~verifyToken(header.token) THEN throwError("unauthorized")
    ELSE NoError

\* variant: any role that came with a verified token passes
authorizeRoles_anyRole(allowedRoles, user) ==
    IF user.role = "none" THEN throwError("unauthorized")
    ELSE NoError

\* authorizeRoles(...allowedRoles)
authorizeRoles(allowedRoles, user) ==
    IF user.role = "none" THEN throwError("unauthorized")
    ELSE IF user.role \notin allowedRoles THEN throwError("forbidden")
    ELSE NoError

\* RequestValidator.validate(schema)
validate(bodyValid) == IF bodyValid THEN NoError ELSE throwError("validationError")

\* -------------------------------------------------------------------- Init
\* An empty database, or one that already holds a finished ride of an
\* earlier driver (no service function sets "completed"; such rows are
\* written directly, as the integration tests do).
SeedDrivers == [d \in DriverIds |-> IF d = 1 THEN "offline" ELSE "unborn"]
SeedRides == [r \in 1..MaxRides |->
                IF r = 1 THEN [user_id |-> 1, driver_id |-> 1, status |-> "completed",
                               fare |-> calculateFare(0)]
                ELSE NoRide]

Init ==
    /\ \E seeded \in BOOLEAN :
         /\ drivers = IF seeded THEN SeedDrivers ELSE [d \in DriverIds |-> "unborn"]
         /\ rides = IF seeded THEN SeedRides ELSE [r \in 1..MaxRides |-> NoRide]
         /\ acceptedBy = [r \in 1..MaxRides |-> IF seeded /\ r = 1 THEN <<1>> ELSE <<>>]
    /\ req = [p \in Procs |-> Idle]
    /\ last = NoResponse
    /\ accounts = [k \in Kinds |-> [i \in AccountIds |-> NoAccount]]
    /\ authReq = [p \in Procs |-> AuthIdle]
    /\ authLast = NoAuthResponse
    /\ http = HttpIdle

\* ------------------------------------------------------------ request slots
\* slots are interchangeable: a new request takes the lowest free one
FreeSlot(p) == req[p].pc = "idle" /\ \A q \in 1..(p-1) : req[q].pc # "idle"

Running(op, pc, who, rideId) ==
    [Idle EXCEPT !.op = op, !.pc = pc, !.who = who, !.ride = rideId]

\* the request ends: its promise resolves with a ride or rejects with an error
Response(rq, result, ret) ==
    [op |-> rq.op, who |-> rq.who, ride |-> rq.ride, rd_driver |-> rq.rd_driver,
     result |-> result, ret |-> ret]

\* ------------------------------------------------------- single-call actions
\* ids are issued in order, each once
NextDriverId == CHOOSE d \in DriverIds : drivers[d] = "unborn" /\ \A e \in 1..(d-1) : drivers[e] # "unborn"
NextRideId == CHOOSE r \in RideIds : rides[r].status = "none" /\ \A e \in 1..(r-1) : rides[e].status # "none"

RegisterDriver ==
    /\ \E d \in DriverIds : drivers[d] = "unborn"
    /\ drivers' = createDriver(drivers, NextDriverId)
    /\ last' = NoResponse
    /\ UNCHANGED <<rides, req, acceptedBy>>
    /\ UNCHANGED <<authVars, httpVars>>

\* requestRide: the fare, then Ride.create; whatever the create throws leaves
\* the function as SERVER_ERROR
RequestRide(u) ==
    /\ \E r \in RideIds : rides[r].status = "none"
    /\ \E random \in RandomSamples, dbError \in BOOLEAN :
         LET rideId == NextRideId
             created == createRideRequest(rides, rideId, u, calculateFare(random))
         IN /\ rides' = IF dbError THEN rides ELSE created
            /\ last' = IF dbError
                       THEN Response(Running("request", "idle", u, 0), "SERVER_ERROR", NoRide)
                       ELSE Response(Running("request", "idle", u, rideId), "OK", created[rideId])
    /\ UNCHANGED <<drivers, req, acceptedBy>>
    /\ UNCHANGED <<authVars, httpVars>>

\* PUT /status: the schema admits online, offline and busy; the update waits
\* for a transaction that wrote the row
UpdateDriverStatus(d, s) ==
    /\ driverAffectedCount(drivers, d) = 1
    /\ ~DriverLocked(d)
    /\ drivers' = updateDriverStatus(drivers, d, s)
    /\ last' = NoResponse
    /\ UNCHANGED <<rides, req, acceptedBy>>
    /\ UNCHANGED <<authVars, httpVars>>

\* DELETE /account: the delete waits for transactions that reference or wrote
\* the row, and for those that wrote a ride the cascade has to change
DeleteDriverAccount(d) ==
    /\ drivers[d] \in DriverStatus
    /\ ~DriverKeyLocked(d)
    /\ ~DriverLocked(d)
    /\ \A r \in RideIds : rides[r].driver_id = d => ~RideLocked(r)
    /\ drivers' = deleteDriver(drivers, d)
    /\ rides' = onDeleteSetNull(rides, d)
    /\ last' = NoResponse
    /\ UNCHANGED <<req, acceptedBy>>
    /\ UNCHANGED <<authVars, httpVars>>

\* ---------------------------------------------------------------- acceptRide
\* step 1: findDriverById, outside the transaction's connection
AcceptFindDriver(p, d, rideId) ==
    /\ FreeSlot(p)
    /\ drivers[d] # "unborn"
    /\ LET chk == AcceptDriverCheck(findDriverById(drivers, d))
           rq == Running("accept", "a_findRide", d, rideId)
       IN /\ req' = [req EXCEPT ![p] = IF chk = "OK" THEN rq ELSE Idle]
          /\ last' = IF chk = "OK" THEN NoResponse ELSE Response(rq, chk, NoRide)
    /\ UNCHANGED <<drivers, rides, acceptedBy>>
    /\ UNCHANGED <<authVars, httpVars>>

\* step 2: findRideById, outside the transaction's connection
AcceptFindRide(p) ==
    /\ req[p].op = "accept" /\ req[p].pc = "a_findRide"
    /\ LET chk == AcceptRideCheck(findRideById(rides, req[p].ride))
       IN /\ req' = [req EXCEPT ![p] = IF chk = "OK" THEN [@ EXCEPT !.pc = "a_updateRide"] ELSE Idle]
          /\ last' = IF chk = "OK" THEN NoResponse ELSE Response(req[p], chk, NoRide)
    /\ UNCHANGED <<drivers, rides, acceptedBy>>
    /\ UNCHANGED <<authVars, httpVars>>

\* step 3: Ride.update + Ride.findOne inside the transaction.  The update
\* waits for the row lock; it fails the foreign key when the driver row is gone.
AcceptUpdateRide(p) ==
    /\ req[p].op = "accept" /\ req[p].pc = "a_updateRide"
    /\ ~RideLocked(req[p].ride)
    /\ LET d == req[p].who
           r == req[p].ride
           err == IF driverAffectedCount(drivers, d) = 0 THEN "DB_ERROR"
                  ELSE IF rideAffectedCount(rides, r) = 0 THEN "SERVER_ERROR"
                  ELSE "OK"
       IN /\ req' = [req EXCEPT ![p] =
                       IF err = "OK"
                       THEN [@ EXCEPT !.pc = "a_updateDriver", !.ret = commitRides(rides, r, d)[r]]
                       ELSE Idle]
          /\ last' = IF err = "OK" THEN NoResponse ELSE Response(req[p], err, NoRide)
    /\ UNCHANGED <<drivers, rides, acceptedBy>>
    /\ UNCHANGED <<authVars, httpVars>>

\* step 4: Driver.update + Driver.findOne inside the transaction; a thrown
\* database error or "no row changed" rolls the transaction back.
AcceptUpdateDriver(p) ==
    /\ req[p].op = "accept" /\ req[p].pc = "a_updateDriver"
    /\ ~DriverLocked(req[p].who)
    /\ \E dbError \in BOOLEAN :
         LET d == req[p].who
             r == req[p].ride
             err == IF dbError THEN "DB_ERROR"
                    ELSE IF driverAffectedCount(drivers, d) = 0 THEN "SERVER_ERROR"
                    ELSE "OK"
         IN /\ req' = [req EXCEPT ![p] = IF err = "OK" THEN [@ EXCEPT !.pc = "a_commit"] ELSE Idle]
            /\ last' = IF err = "OK" THEN NoResponse ELSE Response(req[p], err, NoRide)
            /\ rides' = IF err = "OK" THEN rides ELSE rollbackRides(rides, r, d)
            /\ drivers' = IF err = "OK" THEN drivers ELSE rollbackDrivers(drivers, d)
    /\ UNCHANGED acceptedBy
    /\ UNCHANGED <<authVars, httpVars>>

\* the callback returned: the managed transaction commits
AcceptCommit(p) ==
    /\ req[p].op = "accept" /\ req[p].pc = "a_commit"
    /\ rides' = commitRides(rides, req[p].ride, req[p].who)
    /\ drivers' = commitDrivers(drivers, req[p].who)
    /\ acceptedBy' = [acceptedBy EXCEPT ![req[p].ride] = Append(@, req[p].who)]
    /\ req' = [req EXCEPT ![p] = Idle]
    /\ last' = Response(req[p], "OK", req[p].ret)
    /\ UNCHANGED <<authVars, httpVars>>

\* ---------------------------------------------------------------- cancelRide
\* step 1: findRideById and the three checks
CancelFindRide(p, u, rideId) ==
    /\ FreeSlot(p)
    /\ LET ride == findRideById(rides, rideId)
           chk == CancelCheck(ride, u)
           rq == Running("cancel", "c_updateRide", u, rideId)
       IN /\ req' = [req EXCEPT ![p] =
                       IF chk = "OK" THEN [rq EXCEPT !.rd_driver = ride.driver_id] ELSE Idle]
          /\ last' = IF chk = "OK" THEN NoResponse ELSE Response(rq, chk, NoRide)
    /\ UNCHANGED <<drivers, rides, acceptedBy>>
    /\ UNCHANGED <<authVars, httpVars>>

\* step 2a: Ride.update({status: canceled}, where ride_id), no transaction;
\* it waits for a transaction that wrote the row
CancelUpdateRide(p) ==
    /\ req[p].op = "cancel" /\ req[p].pc = "c_updateRide"
    /\ ~RideLocked(req[p].ride)
    /\ LET ok == rideAffectedCount(rides, req[p].ride) = 1
       IN /\ rides' = updateRideStatus(rides, req[p].ride, "canceled", FALSE, NULL)
          /\ req' = [req EXCEPT ![p] = IF ok THEN [@ EXCEPT !.pc = "c_refetch"] ELSE Idle]
          /\ last' = IF ok THEN NoResponse ELSE Response(req[p], "SERVER_ERROR", NoRide)
    /\ UNCHANGED <<drivers, acceptedBy>>
    /\ UNCHANGED <<authVars, httpVars>>

\* step 2b: Ride.findOne, the row cancelRide returns; without a driver in the
\* ride read in step 1 the function returns here
CancelRefetch(p) ==
    /\ req[p].op = "cancel" /\ req[p].pc = "c_refetch"
    /\ LET row == findRideById(rides, req[p].ride)
           err == IF row.status = "none" THEN "SERVER_ERROR" ELSE "OK"
           more == err = "OK" /\ req[p].rd_driver # NULL
       IN /\ req' = [req EXCEPT ![p] =
                       IF more THEN [@ EXCEPT !.pc = "c_updateDriver", !.ret = row] ELSE Idle]
          /\ last' = IF more THEN NoResponse
                     ELSE Response(req[p], err, IF err = "OK" THEN row ELSE NoRide)
    /\ UNCHANGED <<drivers, rides, acceptedBy>>
    /\ UNCHANGED <<authVars, httpVars>>

\* step 3: the driver read in step 1 goes back online; the result of the
\* update is not looked at, a thrown error leaves the function
CancelUpdateDriver(p) ==
    /\ req[p].op = "cancel" /\ req[p].pc = "c_updateDriver"
    /\ ~DriverLocked(req[p].rd_driver)
    /\ \E dbError \in BOOLEAN :
         /\ drivers' = IF dbError THEN drivers
                       ELSE updateDriverStatus(drivers, req[p].rd_driver, "online")
         /\ last' = IF cancelRideOutcome(dbError) = "OK"
                    THEN Response(req[p], "OK", req[p].ret)
                    ELSE Response(req[p], cancelRideOutcome(dbError), NoRide)
    /\ req' = [req EXCEPT ![p] = Idle]
    /\ UNCHANGED <<rides, acceptedBy>>
    /\ UNCHANGED <<authVars, httpVars>>

\* -------------------------------------------------------------------- Next
Next ==
    \/ RegisterDriver
    \/ \E u \in UserIds : RequestRide(u)
    \/ \E d \in DriverIds, s \in DriverStatus : UpdateDriverStatus(d, s)
    \/ \E d \in DriverIds : DeleteDriverAccount(d)
    \/ \E p \in Procs, d \in DriverIds, r \in RideIds : AcceptFindDriver(p, d, r)
    \/ \E p \in Procs : AcceptFindRide(p)
    \/ \E p \in Procs : AcceptUpdateRide(p)
    \/ \E p \in Procs : AcceptUpdateDriver(p)
    \/ \E p \in Procs : AcceptCommit(p)
    \/ \E p \in Procs, u \in UserIds, r \in RideIds : CancelFindRide(p, u, r)
    \/ \E p \in Procs : CancelUpdateRide(p)
    \/ \E p \in Procs : CancelRefetch(p)
    \/ \E p \in Procs : CancelUpdateDriver(p)

Spec == Init /\ [][Next]_vars

\* ------------------------------------------------- two rides, one request at a time
\* The same service functions over a database with room for MaxRidesSeq
\* rides, with requests arriving only while no other request is in flight
\* (every request runs in slot 1).
InitTwoRides ==
    /\ drivers = [d \in DriverIds |-> "unborn"]
    /\ rides = [r \in 1..MaxRidesSeq |-> NoRide]
    /\ acceptedBy = [r \in 1..MaxRidesSeq |-> <<>>]
    /\ req = [p \in Procs |-> Idle]
    /\ last = NoResponse
    /\ accounts = [k \in Kinds |-> [i \in AccountIds |-> NoAccount]]
    /\ authReq = [p \in Procs |-> AuthIdle]
    /\ authLast = NoAuthResponse
    /\ http = HttpIdle

NextTwoRides ==
    \/ RegisterDriver
    \/ \E u \in UserIds : RequestRide(u)
    \/ \E d \in DriverIds, s \in DriverStatus : UpdateDriverStatus(d, s)
    \/ \E d \in DriverIds : DeleteDriverAccount(d)
    \/ \E d \in DriverIds, r \in RideIds : AcceptFindDriver(1, d, r)
    \/ \E p \in Procs : AcceptFindRide(p)
    \/ \E p \in Procs : AcceptUpdateRide(p)
    \/ \E p \in Procs : AcceptUpdateDriver(p)
    \/ \E p \in Procs : AcceptCommit(p)
    \/ \E u \in UserIds, r \in RideIds : CancelFindRide(1, u, r)
    \/ \E p \in Procs : CancelUpdateRide(p)
    \/ \E p \in Procs : CancelRefetch(p)
    \/ \E p \in Procs : CancelUpdateDriver(p)

SpecTwoRides == InitTwoRides /\ [][NextTwoRides]_vars

\* ------------------------------------------- two rides, one driver's requests
\* The same database with room for two rides, with requests in every slot:
\* the acceptRide calls and status updates of the driver registered first,
\* running concurrently.
NextSameDriver ==
    \/ RegisterDriver
    \/ \E u \in UserIds : RequestRide(u)
    \/ \E s \in DriverStatus : UpdateDriverStatus(1, s)
    \/ \E p \in Procs, r \in RideIds : AcceptFindDriver(p, 1, r)
    \/ \E p \in Procs : AcceptFindRide(p)
    \/ \E p \in Procs : AcceptUpdateRide(p)
    \/ \E p \in Procs : AcceptUpdateDriver(p)
    \/ \E p \in Procs : AcceptCommit(p)

SpecSameDriver == InitTwoRides /\ [][NextSameDriver]_vars

\* ------------------------------------- two rides, concurrent accepts and cancels
\* A database that holds two requested rides of two users (as two requestRide
\* calls leave it), with requests in every slot: acceptRide and cancelRide
\* calls for either ride running concurrently, drivers registering, coming
\* online and deleting their account.
InitFrames ==
    /\ drivers = [d \in DriverIds |-> "unborn"]
    /\ rides = [r \in 1..MaxRidesSeq |->
                  createRideRequest([x \in 1..MaxRidesSeq |-> NoRide], r,
                                    IF r = 1 THEN 1 ELSE MaxUsers, calculateFare(0))[r]]
    /\ acceptedBy = [r \in 1..MaxRidesSeq |-> <<>>]
    /\ req = [p \in Procs |-> Idle]
    /\ last = NoResponse
    /\ accounts = [k \in Kinds |-> [i \in AccountIds |-> NoAccount]]
    /\ authReq = [p \in Procs |-> AuthIdle]
    /\ authLast = NoAuthResponse
    /\ http = HttpIdle

NextFrames ==
    \/ RegisterDriver
    \/ \E d \in DriverIds : UpdateDriverStatus(d, "online")
    \/ \E d \in DriverIds : DeleteDriverAccount(d)
    \/ \E p \in Procs, d \in DriverIds, r \in RideIds : AcceptFindDriver(p, d, r)
    \/ \E p \in Procs : AcceptFindRide(p)
    \/ \E p \in Procs : AcceptUpdateRide(p)
    \/ \E p \in Procs : AcceptUpdateDriver(p)
    \/ \E p \in Procs : AcceptCommit(p)
    \/ \E p \in Procs, u \in UserIds, r \in RideIds : CancelFindRide(p, u, r)
    \/ \E p \in Procs : CancelUpdateRide(p)
    \/ \E p \in Procs : CancelRefetch(p)
    \/ \E p \in Procs : CancelUpdateDriver(p)

SpecFrames == InitFrames /\ [][NextFrames]_vars

\* ------------------------------------------------------- register and login
\* An empty database, or one that holds an admin (no service function
\* creates one: createUser always stores the role rider).
SeedAccounts ==
    [k \in Kinds |-> [i \in AccountIds |->
        IF k = "user" /\ i = 1
        THEN [email |-> 1, password |-> argon2hash(1), role |-> "admin"]
        ELSE NoAccount]]

InitAuth ==
    /\ \E seeded \in BOOLEAN :
         accounts = IF seeded THEN SeedAccounts
                    ELSE [k \in Kinds |-> [i \in AccountIds |-> NoAccount]]
    /\ authReq = [p \in Procs |-> AuthIdle]
    /\ authLast = NoAuthResponse
    /\ drivers = [d \in DriverIds |-> "unborn"]
    /\ rides = [r \in 1..MaxRides |-> NoRide]
    /\ acceptedBy = [r \in 1..MaxRides |-> <<>>]
    /\ req = [p \in Procs |-> Idle]
    /\ last = NoResponse
    /\ http = HttpIdle

NextAccountId(table) ==
    CHOOSE i \in AccountIds : table[i].role = "none" /\ \A j \in 1..(i-1) : table[j].role # "none"

\* ids left for the registrations of a kind that are in flight and one more
IdsLeft(kind) ==
    Cardinality({i \in AccountIds : accounts[kind][i].role = "none"})
    > Cardinality({q \in Procs : authReq[q].pc = "r_create" /\ authReq[q].kind = kind})

\* registerUser / registerDriver step 1: findUserByEmail / findDriverByEmail
RegisterFind(p, kind, email, password) ==
    /\ authReq[p].pc = "idle" /\ \A q \in 1..(p-1) : authReq[q].pc # "idle"
    /\ IdsLeft(kind)
    /\ LET chk == RegisterCheck(findByEmail(accounts[kind], email))
       IN /\ authReq' = [authReq EXCEPT ![p] =
                           IF chk = "OK"
                           THEN [pc |-> "r_create", kind |-> kind, email |-> email,
                                 password |-> password]
                           ELSE AuthIdle]
          /\ authLast' = IF chk = "OK" THEN NoAuthResponse
                         ELSE AuthResponse("register", kind, email, password, chk, 0, NoToken)
    /\ UNCHANGED <<accounts, rideVars, httpVars>>

\* step 2: createUser / createDriver.  The hash throws when the password is
\* not under the key the data access reads (password_plaintext), the insert
\* throws on the unique index of the email and on any database error; the
\* service rethrows what it catches.
RegisterCreate(p) ==
    /\ authReq[p].pc = "r_create"
    /\ \E threw \in BOOLEAN :
         LET rq == authReq[p]
             table == accounts[rq.kind]
             ok == ~threw /\ findByEmail(table, rq.email) = 0
             id == NextAccountId(table)
         IN /\ accounts' = IF ok
                           THEN [accounts EXCEPT ![rq.kind] =
                                   createAccount(table, id, rq.email, rq.password,
                                                 roleAtCreation(rq.kind))]
                           ELSE accounts
            /\ authLast' = AuthResponse("register", rq.kind, rq.email, rq.password,
                                        IF ok THEN "OK" ELSE "DB_ERROR",
                                        IF ok THEN id ELSE 0, NoToken)
    /\ authReq' = [authReq EXCEPT ![p] = AuthIdle]
    /\ UNCHANGED <<rideVars, httpVars>>

\* loginUser / loginDriver: one read of the table, then the token
Login(kind, email, password) ==
    /\ LET id == verifyCredentials(accounts[kind], email, password)
           role == IF kind = "user" THEN accounts[kind][id].role ELSE "driver"
       IN authLast' =
            IF id = 0
            THEN AuthResponse("login", kind, email, password, "UNAUTHORIZED", 0, NoToken)
            ELSE IF role \notin Roles
            THEN AuthResponse("login", kind, email, password, "SERVER_ERROR", 0, NoToken)
            ELSE AuthResponse("login", kind, email, password, "OK", id,
                              generateToken(id, accounts[kind][id].email, role))
    /\ UNCHANGED <<accounts, authReq, rideVars, httpVars>>

\* deleteDriverAccount: the row, and with it the email, is gone
DeleteAccountRow(id) ==
    /\ accounts["driver"][id].role \in Roles
    /\ accounts' = [accounts EXCEPT !["driver"][id] = DeletedAccount]
    /\ authLast' = NoAuthResponse
    /\ UNCHANGED <<authReq, rideVars, httpVars>>

NextAuth ==
    \/ \E p \in Procs, kind \in Kinds, email \in Emails, password \in Passwords :
         RegisterFind(p, kind, email, password)
    \/ \E p \in Procs : RegisterCreate(p)
    \/ \E kind \in Kinds, email \in Emails, password \in Passwords : Login(kind, email, password)
    \/ \E id \in AccountIds : DeleteAccountRow(id)

SpecAuth == InitAuth /\ [][NextAuth]_vars

\* ---------------------------------------------------------- request pipeline
InitHttp ==
    /\ http = HttpIdle
    /\ accounts = [k \in Kinds |-> [i \in AccountIds |-> NoAccount]]
    /\ authReq = [p \in Procs |-> AuthIdle]
    /\ authLast = NoAuthResponse
    /\ drivers = [d \in DriverIds |-> "unborn"]
    /\ rides = [r \in 1..MaxRides |-> NoRide]
    /\ acceptedBy = [r \in 1..MaxRides |-> <<>>]
    /\ req = [p \in Procs |-> Idle]
    /\ last = NoResponse

\* a request arrives at a route with some Authorization header and a body
\* that fits the route's schema or does not
HttpReceive(route, header, bodyValid) ==
    /\ http.pc = "idle"
    /\ http' = [HttpIdle EXCEPT !.pc = FirstStage(route), !.route = route,
                                !.header = header, !.bodyValid = bodyValid]
    /\ UNCHANGED <<rideVars, authVars>>

\* an error handed to next (or thrown) skips to the error handler
Stage(h, err, nextPc) ==
    IF err = NoError THEN [h EXCEPT !.pc = nextPc]
    ELSE [h EXCEPT !.pc = "errorHandler", !.err = err]

HttpAuthenticate ==
    /\ http.pc = "authenticate"
    /\ LET err == authenticateJWT(http.header)
       IN http' = Stage([http EXCEPT !.user = IF err = NoError THEN http.header.token ELSE @],
                        err, AfterAuthenticate(http.route))
    /\ UNCHANGED <<rideVars, authVars>>

HttpAuthorize ==
    /\ http.pc = "authorize"
    /\ http' = Stage(http, authorizeRoles(http.route.roles, http.user), AfterAuthorize(http.route))
    /\ UNCHANGED <<rideVars, authVars>>

HttpValidate ==
    /\ http.pc = "validate"
    /\ http' = Stage(http, validate(http.bodyValid), "handler")
    /\ UNCHANGED <<rideVars, authVars>>

\* the route handler: the guard on req.user of the protected routes, then the
\* service call, whose success is answered at once and whose error goes to next
HttpHandler ==
    /\ http.pc = "handler"
    /\ IF http.route.auth /\ http.route.roles = {} /\ http.user.userId = 0
       THEN http' = Stage(http, throwError("serverError"), "done")
       ELSE \E outcome \in {"OK", "untyped"} \cup http.route.throws :
              http' = IF outcome = "OK"
                      THEN [http EXCEPT !.pc = "done", !.reached = TRUE,
                                        !.status = http.route.success]
                      ELSE Stage([http EXCEPT !.reached = TRUE],
                                 IF outcome = "untyped" THEN plainError ELSE throwError(outcome),
                                 "done")
    /\ UNCHANGED <<rideVars, authVars>>

HttpErrorHandler ==
    /\ http.pc = "errorHandler"
    /\ http' = [http EXCEPT !.pc = "done", !.status = errorHandler(http.err).status,
                            !.error = errorHandler(http.err).error]
    /\ UNCHANGED <<rideVars, authVars>>

\* the response is sent
HttpDone ==
    /\ http.pc = "done"
    /\ http' = HttpIdle
    /\ UNCHANGED <<rideVars, authVars>>

NextHttp ==
    \/ \E route \in Routes, header \in Headers, bodyValid \in BOOLEAN :
         HttpReceive(route, header, bodyValid)
    \/ HttpAuthenticate
    \/ HttpAuthorize
    \/ HttpValidate
    \/ HttpHandler
    \/ HttpErrorHandler
    \/ HttpDone

SpecHttp == InitHttp /\ [][NextHttp]_vars

TypeOK ==
    /\ drivers \in [DriverIds -> DriverStatus \cup NoDriverRow]
    /\ RideIds \in {1..MaxRides, 1..MaxRidesSeq}
    /\ \A r \in RideIds :
         /\ rides[r].status \in RideStatus \cup {"none"}
         /\ rides[r].fare \in {calculateFare(x) : x \in RandomSamples} \cup {0}
         /\ rides[r].driver_id \in DriverIds \cup {NULL}
         /\ Len(acceptedBy[r]) <= MaxProcs + 1
    /\ \A p \in Procs : req[p].pc \in {"idle", "a_findRide", "a_updateRide", "a_updateDriver",
                                       "a_commit", "c_updateRide", "c_refetch", "c_updateDriver"}

\* ================================================================== claims
Last(seq) == seq[Len(seq)]

Exists(r) == rides[r].status # "none"

\* the step is the first step of a cancelRide(u, r) call
CancelCalled(u, r) ==
    \/ \E p \in Procs : req[p].op = "none" /\ req'[p].op = "cancel"
                        /\ req'[p].who = u /\ req'[p].ride = r
    \/ req' = req /\ last'.op = "cancel" /\ last'.who = u /\ last'.ride = r

\* the step belongs to an acceptRide call and is not its successful commit
AcceptStepWithoutSuccess ==
    \/ \E p \in Procs : req[p].op = "accept" /\ req'[p] # req[p]
                        /\ ~(last'.op = "accept" /\ last'.result = "OK")
    \/ \E p \in Procs : req[p].op = "none" /\ req'[p].op = "accept"
    \/ last'.op = "accept" /\ last'.result # "OK"

\* C1: of the acceptRide calls of different drivers for the same ride exactly
\* one succeeds: the drivers whose acceptance of a ride committed are at most one.
C1_ExactlyOneAcceptance ==
    \A r \in RideIds : Cardinality({acceptedBy[r][i] : i \in 1..Len(acceptedBy[r])}) <= 1

\* C2: an acceptRide call that fails, at whatever step, has changed neither
\* the stored ride nor the stored driver; and a step of acceptRide that changes
\* either of them sets the ride in_progress with that driver and the driver busy.
C2_FailedAcceptChangesNothing ==
    [][ /\ AcceptStepWithoutSuccess => rides' = rides /\ drivers' = drivers
        /\ \A p \in Procs :
             req[p].op = "accept" /\ req'[p] # req[p] /\ (rides' # rides \/ drivers' # drivers)
             => /\ rides'[req[p].ride].status = "in_progress"
                /\ rides'[req[p].ride].driver_id = req[p].who
                /\ drivers'[req[p].who] = "busy" ]_vars

\* an acceptRide call failed at its driver update, after its ride update
C2_Witness ==
    /\ last.op = "accept" /\ last.result = "DB_ERROR"
    /\ rides[last.ride].status = "requested" /\ rides[last.ride].driver_id = NULL
    /\ drivers[last.who] = "online"

\* C3: a driver whose status is busy is the assigned driver of some ride
\* whose status is in_progress.
C3_BusyOnlyWhileAssigned ==
    \A d \in DriverIds :
        drivers[d] = "busy"
        => \E r \in RideIds : rides[r].status = "in_progress" /\ rides[r].driver_id = d

\* C4: once a ride's status is completed or canceled, no step changes it.
C4_TerminalIsFinal ==
    [][ \A r \in RideIds :
          rides[r].status \in TerminalStatus => rides'[r].status = rides[r].status ]_vars

\* C5 as stated: driver_id is non-null if and only if the status is
\* in_progress or completed.
C5_DriverIffInProgressOrCompleted ==
    \A r \in RideIds :
        Exists(r) => (rides[r].driver_id # NULL <=> rides[r].status \in {"in_progress", "completed"})

\* C5 amended: a requested ride has no driver_id (a non-null driver_id occurs
\* only with in_progress, completed or canceled), and an in_progress or
\* completed ride is without driver_id only after the driver of its latest
\* acceptance deleted their account.
C5_RequestedHasNoDriver ==
    \A r \in RideIds :
        Exists(r) =>
          /\ rides[r].driver_id # NULL => rides[r].status \in {"in_progress", "completed", "canceled"}
          /\ rides[r].status \in {"in_progress", "completed"} /\ rides[r].driver_id = NULL
             => acceptedBy[r] # <<>> /\ drivers[Last(acceptedBy[r])] = "deleted"

\* a ride canceled after its acceptance still names its driver
C5_Witness ==
    \E r \in RideIds : rides[r].status = "canceled" /\ rides[r].driver_id # NULL

\* C6 as stated: driver_id is null if and only if the ride is requested or was
\* canceled before any acceptance; an accepted ride keeps a non-null driver_id.
C6_NullIffNeverAccepted ==
    \A r \in RideIds :
        Exists(r) =>
          /\ rides[r].driver_id = NULL
             <=> (rides[r].status = "requested"
                  \/ (rides[r].status = "canceled" /\ acceptedBy[r] = <<>>))
          /\ acceptedBy[r] # <<>> => rides[r].driver_id # NULL

\* C6 amended: driver_id is null if and only if the ride was never accepted or
\* the driver of its latest acceptance deleted their account; otherwise it is
\* that driver's id.
C6_NullIffNeverAcceptedOrDriverDeleted ==
    \A r \in RideIds :
        Exists(r) =>
          /\ rides[r].driver_id = NULL
             <=> (acceptedBy[r] = <<>> \/ drivers[Last(acceptedBy[r])] = "deleted")
          /\ rides[r].driver_id # NULL => rides[r].driver_id = Last(acceptedBy[r])

\* an accepted ride lost its driver_id to the deletion of the driver's account
C6_Witness ==
    \E r \in RideIds :
        /\ rides[r].status = "in_progress" /\ rides[r].driver_id = NULL
        /\ acceptedBy[r] # <<>> /\ drivers[Last(acceptedBy[r])] = "deleted"

\* C7: right after a successful acceptRide(driverId, rideId) the ride is
\* in_progress with driver_id = driverId, the driver is busy, and the returned
\* ride shows that status and driver_id.
C7_AcceptPostcondition ==
    last.op = "accept" /\ last.result = "OK"
    => /\ rides[last.ride].status = "in_progress"
       /\ rides[last.ride].driver_id = last.who
       /\ drivers[last.who] = "busy"
       /\ last.ret.status = "in_progress"
       /\ last.ret.driver_id = last.who

\* an acceptRide call has just succeeded
C7_Witness ==
    /\ last.op = "accept" /\ last.result = "OK"
    /\ rides[last.ride].status = "in_progress" /\ drivers[last.who] = "busy"

\* C8: right after a successful cancelRide of a ride read as in_progress with
\* a driver, the ride is canceled and that driver (if the account still
\* exists) is online.
C8_CancelInProgressPostcondition ==
    last.op = "cancel" /\ last.result = "OK" /\ last.rd_driver # NULL
    => /\ rides[last.ride].status = "canceled"
       /\ drivers[last.rd_driver] \in {"online", "deleted"}

\* C9: a cancelRide call by the owner that finds the ride completed or
\* canceled fails with BAD_REQUEST in that step and changes no ride and no driver.
C9_CancelTerminalRejected ==
    [][ \A r \in RideIds, u \in UserIds :
          rides[r].status \in TerminalStatus /\ rides[r].user_id = u /\ CancelCalled(u, r)
          => /\ last'.op = "cancel" /\ last'.result = "BAD_REQUEST"
             /\ req' = req /\ rides' = rides /\ drivers' = drivers ]_vars

\* the owner's cancelRide of a ride canceled after acceptance was just rejected
C9_Witness ==
    /\ last.op = "cancel" /\ last.result = "BAD_REQUEST"
    /\ rides[last.ride].user_id = last.who
    /\ rides[last.ride].status = "canceled" /\ rides[last.ride].driver_id # NULL

\* C10: a cancelRide call by a user who does not own the existing ride fails
\* with FORBIDDEN in that step, whatever the ride's status, and changes no
\* ride and no driver.
C10_CancelByOtherUserForbidden ==
    [][ \A r \in RideIds, u \in UserIds :
          Exists(r) /\ rides[r].user_id # u /\ CancelCalled(u, r)
          => /\ last'.op = "cancel" /\ last'.result = "FORBIDDEN"
             /\ req' = req /\ rides' = rides /\ drivers' = drivers ]_vars

\* another user's cancelRide of a canceled ride was just rejected as FORBIDDEN
C10_Witness ==
    /\ last.op = "cancel" /\ last.result = "FORBIDDEN"
    /\ Exists(last.ride) /\ rides[last.ride].user_id # last.who
    /\ rides[last.ride].status = "canceled"

\* the step is the first step of an acceptRide(d, r) call
AcceptCalled(d, r) ==
    \/ \E p \in Procs : req[p].op = "none" /\ req'[p].op = "accept"
                        /\ req'[p].who = d /\ req'[p].ride = r
    \/ req' = req /\ last'.op = "accept" /\ last'.who = d /\ last'.ride = r

\* C11: an acceptRide call by a driver whose row does not exist fails with
\* NOT_FOUND, one by a driver who is offline or busy fails with BAD_REQUEST;
\* either ends in its first step and changes no ride and no driver.
C11_AcceptByUnavailableDriverRejected ==
    [][ \A d \in DriverIds, r \in RideIds :
          drivers[d] # "online" /\ AcceptCalled(d, r)
          => /\ last'.op = "accept"
             /\ last'.result = IF drivers[d] \in DriverStatus THEN "BAD_REQUEST" ELSE "NOT_FOUND"
             /\ req' = req /\ rides' = rides /\ drivers' = drivers ]_vars

\* a busy driver's acceptRide of a requested ride was just rejected
C11_Witness ==
    /\ last.op = "accept" /\ last.result = "BAD_REQUEST"
    /\ drivers[last.who] = "busy" /\ rides[last.ride].status = "requested"

\* C12: an acceptRide call that passed the driver check and finds no ride
\* fails with NOT_FOUND, one that finds a ride whose status is not requested
\* fails with BAD_REQUEST; the step changes no ride and no driver (the ride
\* keeps status and driver_id, the driver stays as they are).
C12_AcceptOfUnavailableRideRejected ==
    [][ \A p \in Procs :
          /\ req[p].op = "accept" /\ req[p].pc = "a_findRide" /\ req'[p] # req[p]
          /\ rides[req[p].ride].status # "requested"
          => /\ last'.op = "accept" /\ last'.who = req[p].who /\ last'.ride = req[p].ride
             /\ last'.result = IF Exists(req[p].ride) THEN "BAD_REQUEST" ELSE "NOT_FOUND"
             /\ req'[p] = Idle /\ rides' = rides /\ drivers' = drivers ]_vars

\* an online driver's acceptRide of a canceled ride was just rejected
C12_Witness ==
    /\ last.op = "accept" /\ last.result = "BAD_REQUEST"
    /\ drivers[last.who] = "online" /\ rides[last.ride].status = "canceled"

\* C13: when the ride update of an acceptRide call changes no row -- the row
\* is gone, or a concurrent acceptance has claimed the ride since the call
\* read it -- the call fails with SERVER_ERROR in that step and its
\* transaction writes nothing.
C13_ClaimedRideRollsBack ==
    [][ \A p \in Procs :
          /\ req[p].op = "accept" /\ req[p].pc = "a_updateRide" /\ req'[p] # req[p]
          /\ \/ rideAffectedCount(rides, req[p].ride) = 0
             \/ /\ rides[req[p].ride].status = "in_progress"
                /\ rides[req[p].ride].driver_id \notin {NULL, req[p].who}
                /\ acceptedBy[req[p].ride] # <<>>
          => /\ last'.op = "accept" /\ last'.result = "SERVER_ERROR"
             /\ req'[p] = Idle /\ rides' = rides /\ drivers' = drivers ]_vars

\* the step is the driver update of a cancelRide call, and the update did not
\* take effect on a driver row that exists and is not online: it threw
CancelDriverUpdateFailed(p) ==
    /\ req[p].op = "cancel" /\ req[p].pc = "c_updateDriver" /\ req'[p] # req[p]
    /\ drivers[req[p].rd_driver] \in DriverStatus \ {"online"}
    /\ drivers' = drivers

\* C14: when the driver update of a cancelRide call throws, the call still
\* succeeds and returns the canceled ride it refetched.
C14_DriverUpdateErrorNotSurfaced ==
    [][ \A p \in Procs :
          CancelDriverUpdateFailed(p)
          => last'.op = "cancel" /\ last'.result = "OK" /\ last'.ret = req[p].ret ]_vars

C16_RequestRideCreatesOneRide ==
    [][ last'.op = "request" /\ last'.result = "OK"
        => /\ ~Exists(last'.ride)
           /\ rides'[last'.ride] = [user_id |-> last'.who, driver_id |-> NULL,
                                    status |-> "requested", fare |-> last'.ret.fare]
           /\ last'.ret = rides'[last'.ride]
           /\ last'.ret.fare > 0
           /\ \A r \in RideIds \ {last'.ride} : rides'[r] = rides[r]
           /\ drivers' = drivers /\ req' = req ]_vars

\* a second ride was just requested while the first is in progress with a busy driver
C16_Witness ==
    /\ last.op = "request" /\ last.result = "OK" /\ last.ret.fare > 0
    /\ \E r \in RideIds \ {last.ride}, d \in DriverIds :
          rides[r].status = "in_progress" /\ rides[r].driver_id = d /\ drivers[d] = "busy"

\* the step is the first step of a register call of that kind with that email
RegisterCalled(kind, email) ==
    \/ \E p \in Procs : authReq[p].pc = "idle" /\ authReq'[p].pc = "r_create"
                        /\ authReq'[p].kind = kind /\ authReq'[p].email = email
    \/ authReq' = authReq /\ authLast'.op = "register"
       /\ authLast'.kind = kind /\ authLast'.email = email

\* C17: a register call, of a rider or of a driver, with an email that an
\* account of the same kind uses fails with CONFLICT in its first step,
\* creates no account and leaves every account as it is.
C17_DuplicateEmailConflict ==
    [][ \A kind \in Kinds, email \in Emails :
          findByEmail(accounts[kind], email) # 0 /\ RegisterCalled(kind, email)
          => /\ authLast'.op = "register" /\ authLast'.result = "CONFLICT"
             /\ authLast'.id = 0
             /\ authReq' = authReq /\ accounts' = accounts ]_vars

\* a registration with another password for the email of an account was just
\* rejected, and the account still verifies its own password only
C17_Witness ==
    /\ authLast.op = "register" /\ authLast.result = "CONFLICT"
    /\ \E i \in AccountIds :
         /\ accounts[authLast.kind][i].email = authLast.email
         /\ accounts[authLast.kind][i].password # argon2hash(authLast.password)

\* the requests that authenticateJWT lets through
ValidBearer(header) ==
    /\ header.parts = 2 /\ header.scheme = "Bearer"
    /\ header.token.signed /\ header.token.role \in Roles

\* C18: a request to a route other than register and login without
\* Authorization header, with a header that is not 'Bearer <token>', or with
\* an invalid token is answered 401 unauthorized and has not reached the
\* service function.
C18_UnauthenticatedGets401 ==
    http.pc = "done" /\ http.route.auth /\ ~ValidBearer(http.header)
    => http.status = 401 /\ http.error = "unauthorized" /\ ~http.reached

C20_LoginOnlyWithCredentials ==
    authLast.op = "login"
    => LET table == accounts[authLast.kind]
           i == findByEmail(table, authLast.email)
       IN IF i # 0 /\ table[i].password = <<"argon2", authLast.password>>
          THEN /\ authLast.result = "OK" /\ authLast.id = i
               /\ authLast.token = [userId |-> i, email |-> authLast.email,
                                    role |-> IF authLast.kind = "driver" THEN "driver"
                                             ELSE table[i].role,
                                    signed |-> TRUE]
          ELSE authLast.result = "UNAUTHORIZED" /\ authLast.token = NoToken

\* a login with the wrong password for an existing account was just rejected
C20_Witness ==
    /\ authLast.op = "login" /\ authLast.result = "UNAUTHORIZED" /\ authLast.token = NoToken
    /\ \E i \in AccountIds :
         /\ accounts[authLast.kind][i].email = authLast.email
         /\ accounts[authLast.kind][i].password # argon2hash(authLast.password)

\* C21: GET /driver/all reaches getAllDrivers, and answers with driver data,
\* only for a request whose verified token has the role admin; a request with
\* a verified token of role rider or driver is answered 403 forbidden and
\* never reaches getAllDrivers.
C21_AllDriversAdminOnly ==
    http.route.name = "GET /driver/all"
    => /\ http.reached => ValidBearer(http.header) /\ http.header.token.role = "admin"
       /\ http.pc = "done" /\ http.status = 200 => http.reached
       /\ http.pc = "done" /\ ValidBearer(http.header)
          /\ http.header.token.role \in {"rider", "driver"}
          => http.status = 403 /\ http.error = "forbidden" /\ ~http.reached

\* a driver's verified token was just turned away from GET /driver/all
C21_Witness ==
    /\ http.pc = "done" /\ http.route.name = "GET /driver/all"
    /\ ValidBearer(http.header) /\ http.header.token.role = "driver"
    /\ http.status = 403 /\ ~http.reached

\* a step that leaves ride r completed, from any other status
Completes(r) == rides[r].status # "completed" /\ rides'[r].status = "completed"

\* C22: in_progress -> completed is a transition of the service: in every
\* state in which a ride is in_progress, a step of a service operation that
\* sets that ride completed can be taken (the last step of every sequence of
\* operations that ends with the ride completed is such a step).
C22_InProgressCanComplete ==
    \A r \in RideIds :
        rides[r].status = "in_progress" => ENABLED (Next /\ Completes(r))

\* C22, what the service operations do instead: no step of any of them sets
\* a ride completed; a completed row was completed when the server started.
C22_NoStepCompletes ==
    [][ \A r \in RideIds : ~Completes(r) ]_vars

\* the request passed the middleware before the validator of its route
ReachedValidator(h) ==
    /\ h.route.schema
    /\ h.route.auth => ValidBearer(h.header)
    /\ h.route.roles # {} => h.header.token.role \in h.route.roles

\* C23: a request whose body fails the schema of its route is answered 400
\* and the service function behind the route is not called.
C23_InvalidBodyGets400 ==
    http.pc = "done" /\ ReachedValidator(http) /\ ~http.bodyValid
    => http.status = 400 /\ ~http.reached

\* the rides in progress whose assigned driver is d
InProgressOf(d) == {r \in RideIds : rides[r].status = "in_progress" /\ rides[r].driver_id = d}

\* C24: a driver is the assigned driver of at most one ride in progress.
C24_AtMostOneRideInProgress ==
    \A d \in DriverIds : Cardinality(InProgressOf(d)) <= 1

\* C25: in every committed state a ride in progress has a driver_id, and the
\* driver it names exists and is busy.
C25_InProgressHasBusyDriver ==
    \A r \in RideIds :
        rides[r].status = "in_progress"
        => rides[r].driver_id # NULL /\ drivers[rides[r].driver_id] = "busy"

\* C26: when the owner's cancelRide has just reported success for a ride that
\* at most one driver accepted, the outcome is that of a serial order: the
\* ride is canceled, and the driver who accepted it is not left busy (cancel
\* after accept sets them online; their account may be deleted since).
C26_CancelAcceptRaceIsSerial ==
    \A d \in DriverIds :
        /\ last.op = "cancel" /\ last.result = "OK"
        /\ acceptedBy[last.ride] \in {<<>>, <<d>>}
        => /\ rides[last.ride].status = "canceled"
           /\ acceptedBy[last.ride] = <<d>> => drivers[d] \in {"online", "deleted"}

\* C27: of the owner's cancelRide calls that overlap on a ride only one
\* cancels it: a call that comes to its update when another call has
\* canceled the ride since it was read fails there with BAD_REQUEST and
\* changes no ride and no driver.
C27_SecondCancelRejected ==
    [][ \A p \in Procs :
          /\ req[p].op = "cancel" /\ req[p].pc = "c_updateRide" /\ req'[p] # req[p]
          /\ rides[req[p].ride].status = "canceled"
          => /\ last'.op = "cancel" /\ last'.result = "BAD_REQUEST"
             /\ req'[p] = Idle /\ rides' = rides /\ drivers' = drivers ]_vars

\* the accounts of a kind that carry the email
WithEmail(table, email) == {i \in AccountIds : table[i].email = email}

\* C28: of the registrations that overlap on an email only one creates the
\* account: a call that comes to its insert when another call has stored the
\* email since the existence check fails there with CONFLICT, and the email
\* still belongs to one account only.
C28_ConcurrentDuplicateConflict ==
    [][ \A p \in Procs :
          /\ authReq[p].pc = "r_create" /\ authReq'[p] # authReq[p]
          /\ findByEmail(accounts[authReq[p].kind], authReq[p].email) # 0
          => /\ authLast'.op = "register" /\ authLast'.result = "CONFLICT"
             /\ Cardinality(WithEmail(accounts'[authReq[p].kind], authReq[p].email)) = 1 ]_vars

\* the step is the first step of an acceptRide or cancelRide call
FirstStepOfCall ==
    \/ \E p \in Procs : req[p].op = "none" /\ req'[p].op \in {"accept", "cancel"}
    \/ req' = req /\ last'.op \in {"accept", "cancel"}

\* the step is a later step of the call of that kind in slot p
LaterStep(p, op) == req[p].op = op /\ req'[p] # req[p]

====
